---- MODULE Spec2Model ----
(***************************************************************************)
(* Model of tools/json_generator/src/generate.py: the validator, the graph *)
(* builder, the reverse-reference index, the breadth-first closure engine  *)
(* and the three emitters, as driven by main().                            *)
(*                                                                         *)
(* Strings that the code compares, splits or sorts (node ids) are modelled *)
(* as sequences of character codes, so that str.split("-") and the tuple   *)
(* ordering used by sorted() are computed and not assumed.                 *)
(***************************************************************************)
EXTENDS Integers, Sequences, FiniteSets, TLC

VARIABLES
    args,             \* main(): args, the parsed command line
    fs,               \* the input documents on disk
    nodes,            \* main(): nodes
    vi,               \* validate_nodes(): index of the next node of the for loop
    seen_ids,         \* validate_nodes(): seen_ids
    errors,           \* validate_nodes(): errors
    reverse_lookup,   \* main(): reverse_lookup
    outgoing,         \* main() / collect_all_edges_for_node(): outgoing
    incoming,         \* main() / collect_all_edges_for_node(): incoming
    dir_created,      \* nodes_dir.mkdir() has run
    files,            \* names of the files write_json() has written
    index_data,       \* main(): index_data
    graph_nodes,      \* generate_graph_json(): graph_nodes
    gi,               \* generate_graph_json(): index of the next node of the for loop
    object_data,      \* the per-node records written so far, by node id
    oi,               \* main(): index of the next node of the object loop
    exit_status,      \* process exit status, -1 while running
    node_id,          \* collect_all_edges_for_node(): node_id
    direction,        \* collect_transitive_edges(): direction
    edges,            \* collect_transitive_edges(): edges
    visited_edges,    \* collect_transitive_edges(): visited_edges
    visited_nodes,    \* collect_transitive_edges(): visited_nodes
    queue,            \* collect_transitive_edges(): queue
    enq_count,        \* history: how often each node was put on the queue
    iterations,       \* history: iterations of the while loop of this walk
    downstream_edges, \* collect_all_edges_for_node(): downstream_edges
    upstream_edges,   \* collect_all_edges_for_node(): upstream_edges
    result,           \* collect_all_edges_for_node(): the returned list
    pc                \* position in main() or in collect_all_edges_for_node()

vars == << args, fs, nodes, vi, seen_ids, errors, reverse_lookup, outgoing,
           incoming, dir_created, files, index_data, graph_nodes, gi,
           object_data, oi, exit_status, node_id, direction, edges,
           visited_edges, visited_nodes, queue, enq_count, iterations,
           downstream_edges, upstream_edges, result, pc >>

mainVars == << args, fs, nodes, vi, seen_ids, errors, reverse_lookup,
               dir_created, files, index_data, graph_nodes, gi, object_data,
               oi, exit_status >>

walkVars == << direction, edges, visited_edges, visited_nodes, queue,
               enq_count, iterations >>

closureVars == << node_id, downstream_edges, upstream_edges, result >>

-----------------------------------------------------------------------------
(* Bounds of the model *)

\* Largest number of declared edges in a generated node list.
MaxEdges == 3

\* Largest number of nodes in a node list with schema defects.
MaxDefectNodes == 2

-----------------------------------------------------------------------------
(* Strings *)

\* ord("-"), the separator of validate_id_format.
Hyphen == 45

IdA == << 97, 45, 97, 45, 97 >>   \* "a-a-a"
IdB == << 97, 45, 97, 45, 98 >>   \* "a-a-b"
IdC == << 98, 45, 97, 45, 97 >>   \* "b-a-a"
IdD == << 98, 45, 98, 45, 97 >>   \* "b-b-a"
IdTwoParts == << 97, 45, 98 >>    \* "a-b"
IdEmptyParts == << 45, 45 >>      \* "--"

NodeIds == { IdA, IdB, IdC }

Range(s) == { s[i] : i \in DOMAIN s }

\* str < str: code points compared left to right, a proper prefix is smaller.
RECURSIVE StrLess(_, _)
StrLess(s, t) ==
    IF s = << >> THEN t # << >>
    ELSE IF t = << >> THEN FALSE
    ELSE IF Head(s) # Head(t) THEN Head(s) < Head(t)
    ELSE StrLess(Tail(s), Tail(t))

TupleLess_SourceOnly(e, f) == StrLess(e[1], f[1])

\* tuple < tuple for (source, target) pairs: first differing component decides.
TupleLess(e, f) ==
    IF e[1] # f[1] THEN StrLess(e[1], f[1]) ELSE StrLess(e[2], f[2])

-----------------------------------------------------------------------------
(* Nodes.  A node is the dict loaded from YAML: `fields` are the required   *)
(* keys it has, `edges_kind` tells whether the key "edges" is absent, null  *)
(* or a list, and an edge may lack its "target" key.                        *)

required_fields == << "id", "label", "type", "app", "owner", "last_modified" >>

valid_types == { "index", "saved_search", "macro", "lookup_def", "lookup_file",
                 "dashboard", "data_model", "event_type" }

AllFields == Range(required_fields)

Edge(t) == [has_target |-> TRUE, target |-> t]

EdgeNoTarget == [has_target |-> FALSE, target |-> << >>]

Node(f, id, type, kind, es) ==
    [fields |-> f, id |-> id, type |-> type, edges_kind |-> kind, edges |-> es]

\* node.get("edges", []) where the caller tests `if edges:` first (lines 104,
\* 121, 238, 292, 460): absent, null and [] all count as no edges.
EdgesOf(node) == IF node.edges_kind = "list" THEN node.edges ELSE << >>

Ids(ns) == { ns[i].id : i \in { j \in DOMAIN ns : "id" \in ns[j].fields } }

-----------------------------------------------------------------------------
(* Inputs *)

RECURSIVE SeqsOfDistinct(_)
SeqsOfDistinct(S) ==
    { << >> } \cup
    UNION { { << x >> \o p : p \in SeqsOfDistinct(S \ { x }) } : x \in S }

\* Node lists without edges over the id sequences ps: the "edges" key is
\* absent or an empty list (kinds).
BaseLists(ps, kinds) ==
    UNION { { [i \in 1..Len(p) |-> Node(AllFields, p[i], "macro", k[i], << >>)] :
                k \in [1..Len(p) -> kinds] } :
            p \in ps }

\* Ls with one more declared edge, appended to the edge list of the last
\* node that has edges or of a later node (so each list is built once).
AddEdge(Ls) ==
    UNION { UNION { { [L EXCEPT ![i].edges = Append(@, Edge(L[j].id))] :
                        j \in 1..Len(L) } :
                    i \in { n \in 1..Len(L) :
                              /\ L[n].edges_kind = "list"
                              /\ \A m \in (n + 1)..Len(L) : L[m].edges = << >> } } :
            L \in Ls }

\* acc and every list got from frontier by adding up to k edges.
RECURSIVE Grow(_, _, _)
Grow(acc, frontier, k) ==
    IF k = 0 THEN acc
    ELSE LET more == AddEdge(frontier) IN Grow(acc \cup more, more, k - 1)

Ascending(p) == \A i \in DOMAIN p : i < Len(p) => StrLess(p[i], p[i + 1])

Descending(p) == \A i \in DOMAIN p : i < Len(p) => StrLess(p[i + 1], p[i])

\* The orders in which a node list declares its nodes: ascending or
\* descending by id.
DeclarationOrders == { p \in SeqsOfDistinct(NodeIds) : Ascending(p) \/ Descending(p) }

\* Node lists that pass validation: any directed multigraph (cycles,
\* self-loops and parallel edges included) with at most MaxEdges edges.
ValidLists ==
    LET base == BaseLists(DeclarationOrders, { "absent", "list" })
    IN  Grow(base, base, MaxEdges)

\* The diamond A->B, A->C, B->D, C->D of test_diamond_center.
Diamond ==
    << Node(AllFields, IdA, "macro", "list", << Edge(IdB), Edge(IdC) >>),
       Node(AllFields, IdB, "macro", "list", << Edge(IdD) >>),
       Node(AllFields, IdC, "macro", "list", << Edge(IdD) >>),
       Node(AllFields, IdD, "macro", "absent", << >>) >>

\* Nodes that exercise one validation rule each.
DefectNodes ==
    { Node(AllFields \ { "id" }, << >>, "bogus", "list", << Edge(IdC) >>),
      Node(AllFields \ { "label", "owner" }, IdB, "index", "absent", << >>),
      Node(AllFields \ { "type" }, IdB, "", "list", << >>),
      Node(AllFields, IdTwoParts, "macro", "absent", << >>),
      Node(AllFields, IdEmptyParts, "lookup_def", "list", << >>),
      Node(AllFields, IdA, "bogus", "absent", << >>),
      Node(AllFields, IdA, "dashboard", "list", << Edge(IdB), Edge(IdA) >>),
      Node(AllFields, IdA, "macro", "list", << EdgeNoTarget >>),
      Node(AllFields, IdB, "macro", "null", << >>),
      Node(AllFields, IdB, "event_type", "absent", << >>) }

RECURSIVE SeqsUpTo(_, _)
SeqsUpTo(S, n) ==
    IF n = 0 THEN { << >> }
    ELSE LET prev == SeqsUpTo(S, n - 1)
         IN  prev \cup { Append(p, x) : p \in prev, x \in S }

DefectLists == SeqsUpTo(DefectNodes, MaxDefectNodes)

-----------------------------------------------------------------------------
(* Validator *)

\* str.split(sep): the parts between the separators, empty parts included.
RECURSIVE Split(_, _)
Split(s, sep) ==
    IF s = << >> THEN << << >> >>
    ELSE LET rest == Split(Tail(s), sep)
         IN  IF Head(s) = sep THEN << << >> >> \o rest
             ELSE << << Head(s) >> \o Head(rest) >> \o Tail(rest)

validate_id_format(id) == Len(Split(id, Hyphen)) >= 3

\* An entry of the error list.  The message of a missing field names the
\* node's index i; every other message names the node's id.
Err(kind, i, id, field, target) ==
    [kind |-> kind, i |-> i, id |-> id, field |-> field, target |-> target]

RECURSIVE MissingFieldErrors(_, _, _)
MissingFieldErrors(i, node, fields) ==
    IF fields = << >> THEN << >>
    ELSE (IF Head(fields) \in node.fields THEN << >>
          ELSE << Err("missing_field", i, << >>, Head(fields), << >>) >>)
         \o MissingFieldErrors(i, node, Tail(fields))

RECURSIVE EdgeErrors(_, _, _)
EdgeErrors(id, es, all_ids) ==
    IF es = << >> THEN << >>
    ELSE (IF ~Head(es).has_target
              THEN << Err("edge_no_target", -1, id, "", << >>) >>
          ELSE IF Head(es).target \notin all_ids
              THEN << Err("dangling", -1, id, "", Head(es).target) >>
          ELSE << >>)
         \o EdgeErrors(id, Tail(es), all_ids)

NodeErrors_EarlierIds(i, node, seen, all_ids) ==
    MissingFieldErrors(i, node, required_fields) \o
    IF "id" \notin node.fields THEN << >>
    ELSE (IF node.id \in seen
              THEN << Err("duplicate", -1, node.id, "", << >>) >> ELSE << >>)
         \o (IF ~validate_id_format(node.id)
              THEN << Err("bad_format", -1, node.id, "", << >>) >> ELSE << >>)
         \o (IF "type" \in node.fields /\ node.type \notin valid_types
              THEN << Err("bad_type", -1, node.id, node.type, << >>) >>
              ELSE << >>)
         \o EdgeErrors(node.id, EdgesOf(node), seen \cup { node.id })

\* The errors one iteration of the for loop of validate_nodes appends for
\* nodes[i] (i counted from 0 as enumerate does).
NodeErrors(i, node, seen, all_ids) ==
    MissingFieldErrors(i, node, required_fields) \o
    IF "id" \notin node.fields THEN << >>
    ELSE (IF node.id \in seen
              THEN << Err("duplicate", -1, node.id, "", << >>) >> ELSE << >>)
         \o (IF ~validate_id_format(node.id)
              THEN << Err("bad_format", -1, node.id, "", << >>) >> ELSE << >>)
         \o (IF "type" \in node.fields /\ node.type \notin valid_types
              THEN << Err("bad_type", -1, node.id, node.type, << >>) >>
              ELSE << >>)
         \o EdgeErrors(node.id, EdgesOf(node), all_ids)

-----------------------------------------------------------------------------
(* Reverse-reference index and graph builder *)

DictAppend_Front(d, k, v) ==
    IF k \in DOMAIN d THEN [d EXCEPT ![k] = << v >> \o @] ELSE d @@ (k :> << v >>)

\* d[k].append(v) on a defaultdict(list): a missing key is created.
DictAppend(d, k, v) ==
    IF k \in DOMAIN d THEN [d EXCEPT ![k] = Append(@, v)] ELSE d @@ (k :> << v >>)

RECURSIVE ReverseAddEdges_OtherNodes(_, _, _)
ReverseAddEdges_OtherNodes(rl, id, es) ==
    IF es = << >> THEN rl
    ELSE LET t == Head(es).target
             rl1 == IF t \in DOMAIN rl /\ t # id
                        THEN [rl EXCEPT ![t] = @ \cup { id }] ELSE rl
         IN  ReverseAddEdges_OtherNodes(rl1, id, Tail(es))

RECURSIVE ReverseAddEdges(_, _, _)
ReverseAddEdges(rl, id, es) ==
    IF es = << >> THEN rl
    ELSE LET t == Head(es).target
             rl1 == IF t \in DOMAIN rl THEN [rl EXCEPT ![t] = @ \cup { id }] ELSE rl
         IN  ReverseAddEdges(rl1, id, Tail(es))

RECURSIVE ReverseAddNodes(_, _)
ReverseAddNodes(rl, ns) ==
    IF ns = << >> THEN rl
    ELSE ReverseAddNodes(ReverseAddEdges(rl, Head(ns).id, EdgesOf(Head(ns))), Tail(ns))

build_reverse_lookup(ns) ==
    ReverseAddNodes([id \in { ns[i].id : i \in DOMAIN ns } |-> { }], ns)

\* The body of `for edge in node.get("edges", [])`, on the pair g = <<outgoing,
\* incoming>>.
RECURSIVE GraphAddEdges(_, _, _)
GraphAddEdges(g, id, es) ==
    IF es = << >> THEN g
    ELSE LET t == Head(es).target
         IN  GraphAddEdges(<< DictAppend(g[1], id, t), DictAppend(g[2], t, id) >>,
                           id, Tail(es))

EnsureKey_Skip(d, k) == d

\* Lines 146-149: `if node_id not in d: d[node_id] = []`.
EnsureKey(d, k) == IF k \in DOMAIN d THEN d ELSE d @@ (k :> << >>)

RECURSIVE GraphAddNodes(_, _)
GraphAddNodes(g, ns) ==
    IF ns = << >> THEN g
    ELSE LET id == Head(ns).id
             g1 == << EnsureKey(g[1], id), EnsureKey(g[2], id) >>
         IN  GraphAddNodes(GraphAddEdges(g1, id, Head(ns).edges), Tail(ns))

EmptyDict == [k \in { } |-> << >>]

\* << outgoing, incoming >>.  `for edge in node.get("edges", [])` iterates the
\* value itself, so the caller must not pass a node whose "edges" is null.
build_graph_structures(ns) == GraphAddNodes(<< EmptyDict, EmptyDict >>, ns)

-----------------------------------------------------------------------------
(* Closure engine: collect_transitive_edges.  A walk state w holds the      *)
(* locals edges, visited_edges, visited_nodes and queue, and the history    *)
(* counter enq.                                                             *)

\* adjacency.get(current_id, [])
Neighbors(adjacency, id) == IF id \in DOMAIN adjacency THEN adjacency[id] ELSE << >>

OrientedEdge_Traversal(current_id, neighbor, dir) == << current_id, neighbor >>

\* The pair recorded for a neighbour: forward sense in both directions.
OrientedEdge(current_id, neighbor, dir) ==
    IF dir = "downstream" THEN << current_id, neighbor >>
    ELSE << neighbor, current_id >>

RecordEdge_NoSeenCheck(w, edge) ==
    [w EXCEPT !.visited_edges = @ \cup { edge }, !.edges = Append(@, edge)]

\* if edge not in visited_edges: visited_edges.add(edge); edges.append(edge)
RecordEdge(w, edge) ==
    IF edge \notin w.visited_edges
    THEN [w EXCEPT !.visited_edges = @ \cup { edge }, !.edges = Append(@, edge)]
    ELSE w

Bump(enq, n) == IF n \in DOMAIN enq THEN [enq EXCEPT ![n] = @ + 1] ELSE enq @@ (n :> 1)

VisitNeighbor_NoEnqueue(w, neighbor) ==
    IF neighbor \notin w.visited_nodes
    THEN [w EXCEPT !.visited_nodes = @ \cup { neighbor }]
    ELSE w

VisitNeighbor_NoMark(w, neighbor) ==
    IF neighbor \notin w.visited_nodes
    THEN [w EXCEPT !.queue = Append(@, neighbor), !.enq = Bump(@, neighbor)]
    ELSE w

\* if neighbor not in visited_nodes: visited_nodes.add(neighbor);
\* queue.append(neighbor)
VisitNeighbor(w, neighbor) ==
    IF neighbor \notin w.visited_nodes
    THEN [w EXCEPT !.visited_nodes = @ \cup { neighbor },
                   !.queue = Append(@, neighbor),
                   !.enq = Bump(@, neighbor)]
    ELSE w

\* The for loop over the neighbours of current_id.
RECURSIVE ProcessNeighbors(_, _, _, _)
ProcessNeighbors(w, current_id, neighbors, dir) ==
    IF neighbors = << >> THEN w
    ELSE LET n == Head(neighbors)
             w1 == RecordEdge(w, OrientedEdge(current_id, n, dir))
         IN  ProcessNeighbors(VisitNeighbor(w1, n), current_id, Tail(neighbors), dir)

\* The locals after lines 176-179.
WalkInit(start_id) ==
    [edges |-> << >>, visited_edges |-> { }, visited_nodes |-> { start_id },
     queue |-> << start_id >>, enq |-> (start_id :> 1)]

\* One iteration of `while queue`: popleft, then the for loop.
WalkIter(w, adjacency, dir) ==
    LET current_id == Head(w.queue)
    IN  ProcessNeighbors([w EXCEPT !.queue = Tail(@)], current_id,
                         Neighbors(adjacency, current_id), dir)

RECURSIVE WalkLoop(_, _, _)
WalkLoop(w, adjacency, dir) ==
    IF w.queue = << >> THEN w ELSE WalkLoop(WalkIter(w, adjacency, dir), adjacency, dir)

collect_transitive_edges(start_id, adjacency, dir) ==
    WalkLoop(WalkInit(start_id), adjacency, dir).edges

-----------------------------------------------------------------------------
(* collect_all_edges_for_node *)

RECURSIVE InsertSorted(_, _)
InsertSorted(e, s) ==
    IF s = << >> THEN << e >>
    ELSE IF TupleLess(e, Head(s)) THEN << e >> \o s
    ELSE << Head(s) >> \o InsertSorted(e, Tail(s))

sorted_Unsorted(seq) == seq

\* sorted(iterable): the elements of seq in ascending tuple order.
RECURSIVE SortLoop(_, _)
SortLoop(seq, acc) ==
    IF seq = << >> THEN acc ELSE SortLoop(Tail(seq), InsertSorted(Head(seq), acc))

sorted(seq) == SortLoop(seq, << >>)

\* The orders in which iterating a set may yield its elements.
RECURSIVE Enumerations(_)
Enumerations(S) ==
    IF S = { } THEN { << >> }
    ELSE UNION { { << x >> \o p : p \in Enumerations(S \ { x }) } : x \in S }

all_edges_DownstreamOnly(down, up) == Range(down)

\* all_edges after the two update() calls.
all_edges(down, up) == Range(down) \cup Range(up)

EdgeDict(e) == [source |-> e[1], target |-> e[2]]

\* [{"source": s, "target": t} for s, t in ...]
EdgeDicts(seq) == [i \in 1..Len(seq) |-> EdgeDict(seq[i])]

\* The set of lists collect_all_edges_for_node may return, one per iteration
\* order of the set all_edges.
CollectAllEdgesForNode(id, out, inc) ==
    LET down == collect_transitive_edges(id, out, "downstream")
        up == collect_transitive_edges(id, inc, "upstream")
    IN  { EdgeDicts(sorted(enum)) : enum \in Enumerations(all_edges(down, up)) }

-----------------------------------------------------------------------------
(* State of a run that has not started main() / the closure engine *)

NoArgs == [source |-> FALSE, include_main |-> FALSE, scenario |-> "",
           validate_only |-> FALSE]

NoDocs == [source |-> [stem |-> "", has_nodes |-> FALSE, nodes |-> << >>],
           main |-> [stem |-> "", has_nodes |-> FALSE, nodes |-> << >>],
           scenarios_dir_exists |-> FALSE, scenarios |-> << >>]

EmptySetDict == [k \in { } |-> { }]

MainIdle ==
    /\ vi = 0
    /\ seen_ids = { }
    /\ errors = << >>
    /\ reverse_lookup = EmptySetDict
    /\ dir_created = FALSE
    /\ files = { }
    /\ index_data = << >>
    /\ graph_nodes = << >>
    /\ gi = 0
    /\ object_data = << >>
    /\ oi = 0
    /\ exit_status = -1

ClosureIdle ==
    /\ node_id = << >>
    /\ direction = ""
    /\ edges = << >>
    /\ visited_edges = { }
    /\ visited_nodes = { }
    /\ queue = << >>
    /\ enq_count = EmptyDict
    /\ iterations = 0
    /\ downstream_edges = << >>
    /\ upstream_edges = << >>
    /\ result = << >>

-----------------------------------------------------------------------------
(* The closure engine called on its own: collect_all_edges_for_node(node_id, *)
(* outgoing, incoming), as the unit tests call it.                           *)

\* A hand-written adjacency dict that leaves out the keys with no neighbours.
DropEmptyKeys(d) == [k \in { x \in DOMAIN d : d[x] # << >> } |-> d[k]]

\* The graphs the engine is called on: every multigraph with at most MaxEdges
\* edges, and the diamond.
ClosureLists ==
    LET base == BaseLists(DeclarationOrders \ { << >> }, { "list" })
    IN  Grow(base, base, MaxEdges) \cup { Diamond }

Walk == [edges |-> edges, visited_edges |-> visited_edges,
         visited_nodes |-> visited_nodes, queue |-> queue, enq |-> enq_count]

SetWalk(w) ==
    /\ edges' = w.edges
    /\ visited_edges' = w.visited_edges
    /\ visited_nodes' = w.visited_nodes
    /\ queue' = w.queue
    /\ enq_count' = w.enq

InitClosure ==
    /\ args = NoArgs
    /\ fs = NoDocs
    /\ MainIdle
    /\ nodes \in ClosureLists
    /\ \E sparse \in BOOLEAN :
         LET g == build_graph_structures(nodes)
         IN  /\ outgoing = IF sparse THEN DropEmptyKeys(g[1]) ELSE g[1]
             /\ incoming = IF sparse THEN DropEmptyKeys(g[2]) ELSE g[2]
    /\ node_id \in Ids(nodes)
    /\ direction = "downstream"
    /\ LET w == WalkInit(node_id)
       IN  /\ edges = w.edges
           /\ visited_edges = w.visited_edges
           /\ visited_nodes = w.visited_nodes
           /\ queue = w.queue
           /\ enq_count = w.enq
    /\ iterations = 0
    /\ downstream_edges = << >>
    /\ upstream_edges = << >>
    /\ result = << >>
    /\ pc = "walk_downstream"

\* One iteration of the while loop of collect_transitive_edges.
WalkStep ==
    /\ pc \in { "walk_downstream", "walk_upstream" }
    /\ queue # << >>
    /\ SetWalk(WalkIter(Walk, IF direction = "downstream" THEN outgoing ELSE incoming,
                        direction))
    /\ iterations' = iterations + 1
    /\ UNCHANGED << mainVars, closureVars, outgoing, incoming, direction, pc >>

\* The downstream walk returns (line 221); the upstream walk is entered (225).
DownstreamReturn ==
    /\ pc = "walk_downstream"
    /\ queue = << >>
    /\ downstream_edges' = edges
    /\ direction' = "upstream"
    /\ SetWalk(WalkInit(node_id))
    /\ iterations' = 0
    /\ pc' = "walk_upstream"
    /\ UNCHANGED << mainVars, outgoing, incoming, node_id, upstream_edges, result >>

\* The upstream walk returns (line 225).
UpstreamReturn ==
    /\ pc = "walk_upstream"
    /\ queue = << >>
    /\ upstream_edges' = edges
    /\ pc' = "sort"
    /\ UNCHANGED << mainVars, walkVars, outgoing, incoming, node_id,
                    downstream_edges, result >>

\* Line 229: the set is iterated in some order, sorted, and turned into dicts.
SortAndReturn ==
    /\ pc = "sort"
    /\ \E enum \in Enumerations(all_edges(downstream_edges, upstream_edges)) :
         result' = EdgeDicts(sorted(enum))
    /\ pc' = "returned"
    /\ UNCHANGED << mainVars, walkVars, outgoing, incoming, node_id,
                    downstream_edges, upstream_edges >>

NextClosure ==
    \/ WalkStep
    \/ DownstreamReturn
    \/ UpstreamReturn
    \/ SortAndReturn

SpecClosure == InitClosure /\ [][NextClosure]_vars

-----------------------------------------------------------------------------
(* Emitters.  label, app, owner, last_modified and spl_code are copied from  *)
(* the node unchanged and are left out of the records.                       *)

\* d[key] = value on a dict kept as the sequence of its items in insertion
\* order: an existing key keeps its place.
DictSet(d, key, value) ==
    IF \E i \in DOMAIN d : d[i].key = key
    THEN [i \in DOMAIN d |-> IF d[i].key = key THEN [key |-> key, value |-> value]
                                              ELSE d[i]]
    ELSE Append(d, [key |-> key, value |-> value])

\* reverse_lookup.get(node_id, set())
ReverseGet(rl, id) == IF id \in DOMAIN rl THEN rl[id] ELSE { }

IndexEntry_OutgoingOnly(node, rl) ==
    [type |-> node.type, isolated |-> EdgesOf(node) = << >>]

IndexEntry(node, rl) ==
    [type |-> node.type,
     isolated |-> EdgesOf(node) = << >> /\ ReverseGet(rl, node.id) = { }]

RECURSIVE IndexLoop(_, _, _)
IndexLoop(index, ns, rl) ==
    IF ns = << >> THEN index
    ELSE IndexLoop(DictSet(index, Head(ns).id, IndexEntry(Head(ns), rl)), Tail(ns), rl)

generate_index_json(ns, rl) == IndexLoop(<< >>, ns, rl)

GraphEntry(node, all) == [id |-> node.id, type |-> node.type, edges |-> all]

generate_object_json_DistinctTargets(node, rl) ==
    [id |-> node.id, type |-> node.type,
     upstream_count |-> Cardinality(ReverseGet(rl, node.id)),
     downstream_count |-> Cardinality(Range(EdgesOf(node)))]

generate_object_json(node, rl) ==
    [id |-> node.id, type |-> node.type,
     upstream_count |-> Cardinality(ReverseGet(rl, node.id)),
     downstream_count |-> Len(EdgesOf(node))]

-----------------------------------------------------------------------------
(* Command line and input documents *)

Doc(stem, has_nodes, ns) == [stem |-> stem, has_nodes |-> has_nodes, nodes |-> ns]

Args(source, include_main, scenario, validate_only) ==
    [source |-> source, include_main |-> include_main, scenario |-> scenario,
     validate_only |-> validate_only]

\* source and main are documents (stem "" when the file does not exist);
\* scenarios are the *.yaml files of the scenarios directory, sorted by name.
Docs(source, main, dir_exists, scenarios) ==
    [source |-> source, main |-> main, scenarios_dir_exists |-> dir_exists,
     scenarios |-> scenarios]

NoFile == Doc("", FALSE, << >>)

FirstNode(L) == IF L = << >> THEN << >> ELSE << Head(L) >>

RestNodes(L) == IF L = << >> THEN << >> ELSE Tail(L)

\* The ways the node list L can reach main(): << args, fs >> up to
\* validate_only.
Layouts(L, vo) ==
    { << Args(TRUE, TRUE, "", vo), Docs(Doc("source", TRUE, L), NoFile, FALSE, << >>) >>,
      << Args(TRUE, TRUE, "", vo), Docs(NoFile, NoFile, FALSE, << >>) >>,
      << Args(TRUE, TRUE, "", vo), Docs(Doc("source", FALSE, << >>), NoFile, FALSE, << >>) >>,
      << Args(FALSE, TRUE, "", vo), Docs(NoFile, Doc("synth_graph", TRUE, L), FALSE, << >>) >>,
      << Args(FALSE, TRUE, "", vo),
         Docs(NoFile, Doc("synth_graph", TRUE, FirstNode(L)), TRUE,
              << Doc("s1", TRUE, RestNodes(L)) >>) >>,
      << Args(FALSE, FALSE, "", vo),
         Docs(NoFile, Doc("synth_graph", TRUE, L), TRUE, << Doc("s1", TRUE, L) >>) >>,
      << Args(FALSE, TRUE, "s2", vo),
         Docs(NoFile, NoFile, TRUE, << Doc("s1", TRUE, L), Doc("s2", TRUE, L) >>) >>,
      << Args(FALSE, TRUE, "zz", vo),
         Docs(NoFile, NoFile, TRUE, << Doc("s1", TRUE, L) >>) >>,
      << Args(FALSE, TRUE, "", vo),
         Docs(NoFile, Doc("synth_graph", FALSE, << >>), TRUE,
              << Doc("s1", FALSE, << >>), Doc("s2", TRUE, << >>) >>) >> }

RECURSIVE ExtendAll(_, _)
ExtendAll(all_nodes, yaml_files) ==
    IF yaml_files = << >> THEN all_nodes
    ELSE ExtendAll(IF Head(yaml_files).has_nodes
                       THEN all_nodes \o Head(yaml_files).nodes ELSE all_nodes,
                   Tail(yaml_files))

FilterStem(yaml_files, stem) == SelectSeq(yaml_files, LAMBDA f : f.stem = stem)

load_all_scenario_files(docs, scenario_filter) ==
    IF ~docs.scenarios_dir_exists THEN << >>
    ELSE LET yaml_files == IF scenario_filter # ""
                              THEN FilterStem(docs.scenarios, scenario_filter)
                              ELSE docs.scenarios
         IN  ExtendAll(<< >>, yaml_files)

-----------------------------------------------------------------------------
(* main() *)

Init ==
    /\ \/ \E L \in DefectLists, vo \in BOOLEAN :
            \E layout \in Layouts(L, vo) : args = layout[1] /\ fs = layout[2]
       \/ \E L \in ValidLists \cup { Diamond } :
            /\ args = Args(TRUE, TRUE, "", FALSE)
            /\ fs = Docs(Doc("source", TRUE, L), NoFile, FALSE, << >>)
    /\ nodes = << >>
    /\ MainIdle
    /\ outgoing = EmptyDict
    /\ incoming = EmptyDict
    /\ ClosureIdle
    /\ pc = "load"

Exit(status) ==
    /\ exit_status' = status
    /\ pc' = "exit"

\* Lines 364-374: single source file mode.
LoadSource ==
    /\ pc = "load"
    /\ args.source
    /\ IF fs.source.stem = "" \/ ~fs.source.has_nodes
       THEN Exit(1) /\ UNCHANGED nodes
       ELSE /\ nodes' = fs.source.nodes
            /\ pc' = "validate"
            /\ UNCHANGED exit_status
    /\ UNCHANGED << args, fs, vi, seen_ids, errors, reverse_lookup, outgoing,
                    incoming, dir_created, files, index_data, graph_nodes, gi,
                    object_data, oi, closureVars, walkVars >>

\* Lines 375-394: scenario mode.
LoadScenarios ==
    /\ pc = "load"
    /\ ~args.source
    /\ LET main_nodes == IF args.include_main /\ fs.main.stem # "" /\ fs.main.has_nodes
                            THEN fs.main.nodes ELSE << >>
           loaded == main_nodes \o load_all_scenario_files(fs, args.scenario)
       IN  /\ nodes' = loaded
           /\ IF loaded = << >>
              THEN Exit(1)
              ELSE pc' = "validate" /\ UNCHANGED exit_status
    /\ UNCHANGED << args, fs, vi, seen_ids, errors, reverse_lookup, outgoing,
                    incoming, dir_created, files, index_data, graph_nodes, gi,
                    object_data, oi, closureVars, walkVars >>

\* One iteration of the for loop of validate_nodes (lines 79-110).
ValidateNode ==
    /\ pc = "validate"
    /\ vi < Len(nodes)
    /\ LET node == nodes[vi + 1]
       IN  /\ errors' = errors \o NodeErrors(vi, node, seen_ids, Ids(nodes))
           /\ seen_ids' = IF "id" \in node.fields THEN seen_ids \cup { node.id }
                          ELSE seen_ids
    /\ vi' = vi + 1
    /\ UNCHANGED << args, fs, nodes, reverse_lookup, outgoing, incoming,
                    dir_created, files, index_data, graph_nodes, gi, object_data,
                    oi, exit_status, closureVars, walkVars, pc >>

ValidationDone_IgnoreErrors ==
    /\ pc = "validate"
    /\ vi = Len(nodes)
    /\ IF args.validate_only THEN Exit(IF errors # << >> THEN 1 ELSE 0)
       ELSE pc' = "build_reverse_lookup" /\ UNCHANGED exit_status
    /\ UNCHANGED << args, fs, nodes, vi, seen_ids, errors, reverse_lookup,
                    outgoing, incoming, dir_created, files, index_data,
                    graph_nodes, gi, object_data, oi, closureVars, walkVars >>

\* validate_nodes has returned.  Lines 401-405: errors end the run;
\* 409-411: validation-only mode returns.
ValidationDone ==
    /\ pc = "validate"
    /\ vi = Len(nodes)
    /\ IF errors # << >> THEN Exit(1)
       ELSE IF args.validate_only THEN Exit(0)
       ELSE pc' = "build_reverse_lookup" /\ UNCHANGED exit_status
    /\ UNCHANGED << args, fs, nodes, vi, seen_ids, errors, reverse_lookup,
                    outgoing, incoming, dir_created, files, index_data,
                    graph_nodes, gi, object_data, oi, closureVars, walkVars >>

\* Line 414.
BuildReverseLookup ==
    /\ pc = "build_reverse_lookup"
    /\ reverse_lookup' = build_reverse_lookup(nodes)
    /\ pc' = "build_graph_structures"
    /\ UNCHANGED << args, fs, nodes, vi, seen_ids, errors, outgoing, incoming,
                    dir_created, files, index_data, graph_nodes, gi, object_data,
                    oi, exit_status, closureVars, walkVars >>

\* Line 417.  Iterating an "edges" value of null (line 152) raises TypeError,
\* which ends the process with a traceback.
BuildGraphStructures ==
    /\ pc = "build_graph_structures"
    /\ IF \E i \in DOMAIN nodes : nodes[i].edges_kind = "null"
       THEN Exit(1) /\ UNCHANGED << outgoing, incoming >>
       ELSE /\ outgoing' = build_graph_structures(nodes)[1]
            /\ incoming' = build_graph_structures(nodes)[2]
            /\ pc' = "mkdir"
            /\ UNCHANGED exit_status
    /\ UNCHANGED << args, fs, nodes, vi, seen_ids, errors, reverse_lookup,
                    dir_created, files, index_data, graph_nodes, gi, object_data,
                    oi, closureVars, walkVars >>

\* Lines 420-422.
MakeDirs ==
    /\ pc = "mkdir"
    /\ dir_created' = TRUE
    /\ pc' = "index"
    /\ UNCHANGED << args, fs, nodes, vi, seen_ids, errors, reverse_lookup,
                    outgoing, incoming, files, index_data, graph_nodes, gi,
                    object_data, oi, exit_status, closureVars, walkVars >>

\* Lines 426-427.
WriteIndex ==
    /\ pc = "index"
    /\ index_data' = generate_index_json(nodes, reverse_lookup)
    /\ files' = files \cup { << "index.json" >> }
    /\ pc' = "graph"
    /\ UNCHANGED << args, fs, nodes, vi, seen_ids, errors, reverse_lookup,
                    outgoing, incoming, dir_created, graph_nodes, gi, object_data,
                    oi, exit_status, closureVars, walkVars >>

\* One iteration of the for loop of generate_graph_json (lines 267-281).
GraphNode ==
    /\ pc = "graph"
    /\ gi < Len(nodes)
    /\ \E all \in CollectAllEdgesForNode(nodes[gi + 1].id, outgoing, incoming) :
         graph_nodes' = Append(graph_nodes, GraphEntry(nodes[gi + 1], all))
    /\ gi' = gi + 1
    /\ UNCHANGED << args, fs, nodes, vi, seen_ids, errors, reverse_lookup,
                    outgoing, incoming, dir_created, files, index_data,
                    object_data, oi, exit_status, closureVars, walkVars, pc >>

\* generate_graph_json returns; line 432.
WriteGraph ==
    /\ pc = "graph"
    /\ gi = Len(nodes)
    /\ files' = files \cup { << "graph.json" >> }
    /\ pc' = "objects"
    /\ UNCHANGED << args, fs, nodes, vi, seen_ids, errors, reverse_lookup,
                    outgoing, incoming, dir_created, index_data, graph_nodes, gi,
                    object_data, oi, exit_status, closureVars, walkVars >>

\* One iteration of the loop of lines 436-438.
WriteObject ==
    /\ pc = "objects"
    /\ oi < Len(nodes)
    /\ LET node == nodes[oi + 1]
       IN  /\ object_data' = DictSet(object_data, node.id,
                                     generate_object_json(node, reverse_lookup))
           /\ files' = files \cup { << "nodes", node.id >> }
    /\ oi' = oi + 1
    /\ UNCHANGED << args, fs, nodes, vi, seen_ids, errors, reverse_lookup,
                    outgoing, incoming, dir_created, index_data, graph_nodes, gi,
                    exit_status, closureVars, walkVars, pc >>

\* Lines 440-470: the summary is printed and main returns.
Finish ==
    /\ pc = "objects"
    /\ oi = Len(nodes)
    /\ Exit(0)
    /\ UNCHANGED << args, fs, nodes, vi, seen_ids, errors, reverse_lookup,
                    outgoing, incoming, dir_created, files, index_data,
                    graph_nodes, gi, object_data, oi, closureVars, walkVars >>

Next ==
    \/ LoadSource
    \/ LoadScenarios
    \/ ValidateNode
    \/ ValidationDone
    \/ BuildReverseLookup
    \/ BuildGraphStructures
    \/ MakeDirs
    \/ WriteIndex
    \/ GraphNode
    \/ WriteGraph
    \/ WriteObject
    \/ Finish

Spec == Init /\ [][Next]_vars

-----------------------------------------------------------------------------
(* Properties *)

\* Graph-theoretic vocabulary, defined on the adjacency alone.
Succ(adjacency, u) == IF u \in DOMAIN adjacency THEN Range(adjacency[u]) ELSE { }

RECURSIVE ReachFrom(_, _)
ReachFrom(R, adjacency) ==
    LET R2 == R \cup UNION { Succ(adjacency, u) : u \in R }
    IN  IF R2 = R THEN R ELSE ReachFrom(R2, adjacency)

\* Every node that appears in the adjacency, as a key or as a neighbour.
NodesOf(adjacency) ==
    DOMAIN adjacency \cup UNION { Range(adjacency[k]) : k \in DOMAIN adjacency }

NoDuplicates(seq) == \A i, j \in DOMAIN seq : seq[i] = seq[j] => i = j

DownstreamKnown == pc \in { "walk_upstream", "sort", "returned" }

UpstreamKnown == pc \in { "sort", "returned" }

\* C1: the downstream walk from node_id returns, as a set, exactly the pairs
\* (u, v) with u reachable from node_id along outgoing edges and v a direct
\* outgoing neighbour of u; a node absent as a key has no neighbours.
C1_DownstreamClosure ==
    DownstreamKnown =>
        Range(downstream_edges) =
            { e \in ReachFrom({ node_id }, outgoing) \X (NodesOf(outgoing) \cup { node_id }) :
                e[2] \in Succ(outgoing, e[1]) }

\* C1 witness: a returned walk that recorded an edge two steps away from the
\* start and reached a neighbour that is no key of the adjacency.
C1_Witness ==
    /\ DownstreamKnown
    /\ \E i \in DOMAIN downstream_edges :
         /\ downstream_edges[i][1] # node_id
         /\ downstream_edges[i][2] \notin DOMAIN outgoing

\* C2: the upstream walk from node_id returns, as a set, exactly the pairs
\* (u, v) with node_id reachable from v along forward edges and u a direct
\* predecessor of v; each recorded pair is a forward edge, v in outgoing[u].
C2_UpstreamClosure ==
    UpstreamKnown =>
        /\ Range(upstream_edges) =
             { e \in Ids(nodes) \X Ids(nodes) :
                 /\ node_id \in ReachFrom({ e[2] }, outgoing)
                 /\ e[2] \in Succ(outgoing, e[1]) }
        /\ \A i \in DOMAIN upstream_edges :
             upstream_edges[i][2] \in Succ(outgoing, upstream_edges[i][1])

\* C2 witness: the upstream walk recorded an edge that does not end at the
\* start node and whose reversal is no edge of the graph.
C2_Witness ==
    /\ UpstreamKnown
    /\ \E i \in DOMAIN upstream_edges :
         /\ upstream_edges[i][2] # node_id
         /\ upstream_edges[i][1] \notin Succ(outgoing, upstream_edges[i][2])

\* C3: the list returned by collect_all_edges_for_node holds an edge (u, v)
\* iff u is reachable from node_id or node_id is reachable from v along
\* outgoing edges; for B in the diamond it is exactly (A,B), (B,D).
C3_UnionOfClosures ==
    pc = "returned" =>
        /\ { << result[i].source, result[i].target >> : i \in DOMAIN result } =
             { e \in Ids(nodes) \X Ids(nodes) :
                 /\ e[2] \in Succ(outgoing, e[1])
                 /\ \/ e[1] \in ReachFrom({ node_id }, outgoing)
                    \/ node_id \in ReachFrom({ e[2] }, outgoing) }
        /\ (nodes = Diamond /\ node_id = IdB) =>
             result = << [source |-> IdA, target |-> IdB],
                         [source |-> IdB, target |-> IdD] >>

\* C3 witness: the call for B in the diamond has returned.
C3_Witness == pc = "returned" /\ nodes = Diamond /\ node_id = IdB

InWalk == pc \in { "walk_downstream", "walk_upstream" }

\* C4: the walk terminates: every iteration of the while loop advances the
\* iteration count, which never exceeds the number of nodes of the graph, and
\* the walk can always take its next step until it has returned; within a
\* walk the visited-node set only grows, no node is enqueued twice, and the
\* visited nodes never outnumber the nodes of the graph.
C4_WalkTerminates ==
    /\ [](/\ \A n \in DOMAIN enq_count : enq_count[n] <= 1
          /\ Cardinality(visited_nodes) <= Cardinality(Ids(nodes))
          /\ iterations <= Cardinality(Ids(nodes))
          /\ Len(queue) + iterations <= Cardinality(visited_nodes)
          /\ InWalk => ENABLED (WalkStep \/ DownstreamReturn \/ UpstreamReturn))
    /\ [][(InWalk /\ pc' = pc) =>
            /\ visited_nodes \subseteq visited_nodes'
            /\ iterations' = iterations + 1
            /\ Len(queue') + iterations' <= Cardinality(visited_nodes')]_vars

\* C4 witness: a walk over a graph with a cycle through the start node has
\* emptied its queue after visiting every node.
C4_Witness ==
    /\ InWalk
    /\ queue = << >>
    /\ Cardinality(visited_nodes) = 3
    /\ \E i \in DOMAIN edges : edges[i][IF direction = "downstream" THEN 2 ELSE 1] = node_id

\* C5: the lists returned by collect_transitive_edges and by
\* collect_all_edges_for_node hold no pair twice; a node whose only edge is a
\* self-loop yields exactly the one edge (N, N).
C5_NoDuplicateEdges ==
    /\ NoDuplicates(edges)
    /\ NoDuplicates(downstream_edges)
    /\ NoDuplicates(upstream_edges)
    /\ NoDuplicates(result)
    /\ (/\ Neighbors(outgoing, node_id) = << node_id >>
        /\ Neighbors(incoming, node_id) = << node_id >>) =>
          /\ DownstreamKnown => downstream_edges = << << node_id, node_id >> >>
          /\ UpstreamKnown => upstream_edges = << << node_id, node_id >> >>
          /\ pc = "returned" => result = << [source |-> node_id, target |-> node_id] >>

\* C5 witness: the adjacency repeats a neighbour and an edge was found by
\* both walks, and the call has returned.
C5_Witness ==
    /\ pc = "returned"
    /\ \E k \in DOMAIN outgoing : ~NoDuplicates(outgoing[k])
    /\ Range(downstream_edges) \cap Range(upstream_edges) # { }

\* (source, target) order: source first, target second.
PairBefore(a, b) ==
    \/ StrLess(a.source, b.source)
    \/ a.source = b.source /\ StrLess(a.target, b.target)

\* C6: the returned list is strictly ascending by (source, target).
C6_SortedEdges ==
    pc = "returned" =>
        \A i \in DOMAIN result : i < Len(result) => PairBefore(result[i], result[i + 1])

\* C6 witness: a returned list in which two neighbours share the source and
\* two differ in it.
C6_Witness ==
    /\ pc = "returned"
    /\ \E i, j \in DOMAIN result :
         /\ i < Len(result) /\ j < Len(result)
         /\ result[i].source = result[i + 1].source
         /\ result[j].source # result[j + 1].source

\* The lists with the elements of seq in another order.
Reorderings(seq) ==
    { [i \in DOMAIN seq |-> seq[f[i]]] : f \in Enumerations(DOMAIN seq) }

\* The node lists that declare the same edges as ns, each node's edges in any
\* order.
RECURSIVE EdgeReorderings(_)
EdgeReorderings(ns) ==
    IF ns = << >> THEN { << >> }
    ELSE { << [Head(ns) EXCEPT !.edges = es] >> \o rest :
             es \in Reorderings(Head(ns).edges), rest \in EdgeReorderings(Tail(ns)) }

Generated == pc = "exit" /\ exit_status = 0 /\ ~args.validate_only

\* C7: generation is deterministic.  Every run on the node list of this run
\* produces this run's index and graph records (the set of edge lists the
\* emitter can produce for a node has one element), and a run on the same
\* nodes with the declared edges of each node in any other order produces
\* the same index record and the same edge list for every node.
C7_Deterministic ==
    Generated =>
        \A P \in EdgeReorderings(nodes) :
            LET g == build_graph_structures(P)
            IN  /\ generate_index_json(P, build_reverse_lookup(P)) = index_data
                /\ \A i \in DOMAIN P :
                     CollectAllEdgesForNode(P[i].id, g[1], g[2]) = { graph_nodes[i].edges }

\* C7 witness: a finished run whose second node declares two different edges
\* (so that the order of declaration can change) and has three closure edges.
C7_Witness ==
    /\ Generated
    /\ Len(nodes) >= 2
    /\ Len(nodes[2].edges) = 2
    /\ nodes[2].edges[1] # nodes[2].edges[2]
    /\ Len(graph_nodes[2].edges) = 3

ValidationComplete == pc # "load" /\ vi = Len(nodes) /\ (pc = "validate" \/ vi > 0)

\* C8: nothing is created or written before validate_nodes has gone through
\* every node and returned no error; a run whose validation reports an error
\* ends with a non-zero status and no file; validation-only mode writes
\* nothing.
C8_ValidateBeforeWrite ==
    /\ (dir_created \/ files # { } \/ index_data # << >> \/ graph_nodes # << >>) =>
          /\ pc \notin { "load", "validate" }
          /\ vi = Len(nodes)
          /\ errors = << >>
          /\ ~args.validate_only
    /\ errors # << >> => ~dir_created /\ files = { }
    /\ (pc = "exit" /\ errors # << >>) => exit_status # 0
    /\ args.validate_only => ~dir_created /\ files = { }

\* C8 witness: a run that found an error in its first node, went on to
\* validate the second, and ended.
C8_Witness ==
    /\ pc = "exit"
    /\ Len(nodes) = 2
    /\ vi = 2
    /\ errors # << >>
    /\ errors[1].kind = "missing_field"
    /\ exit_status = 1
    /\ files = { }

\* Counting the violations of a node list, from the rules alone.
HasId(n) == "id" \in n.fields

Count(S) == Cardinality(S)

HyphenCount(id) == Cardinality({ k \in DOMAIN id : id[k] = Hyphen })

\* Edge positions << i, k >> of the nodes that have an id.
EdgePositions(ns) ==
    UNION { { << i, k >> : k \in DOMAIN EdgesOf(ns[i]) } :
            i \in { j \in DOMAIN ns : HasId(ns[j]) } }

MissingNodeFields(ns) ==
    UNION { { << i, f >> : f \in AllFields \ ns[i].fields } : i \in DOMAIN ns }

MissingEdgeTargets(ns) ==
    { p \in EdgePositions(ns) : ~ns[p[1]].edges[p[2]].has_target }

RepeatedIds(ns) ==
    { i \in DOMAIN ns :
        HasId(ns[i]) /\ \E j \in 1..(i - 1) : HasId(ns[j]) /\ ns[j].id = ns[i].id }

ShortIds(ns) == { i \in DOMAIN ns : HasId(ns[i]) /\ HyphenCount(ns[i].id) + 1 < 3 }

UnknownTypes(ns) ==
    { i \in DOMAIN ns :
        HasId(ns[i]) /\ "type" \in ns[i].fields /\ ns[i].type \notin valid_types }

DanglingEdges(ns) ==
    { p \in EdgePositions(ns) :
        /\ ns[p[1]].edges[p[2]].has_target
        /\ ~\E j \in DOMAIN ns : HasId(ns[j]) /\ ns[j].id = ns[p[1]].edges[p[2]].target }

ErrorsOfKind(kind) == { k \in DOMAIN errors : errors[k].kind = kind }

\* C9: validate_nodes is not fail-fast.  When it has gone through the list,
\* the error list holds one error per missing required field (a required key
\* of a node, or the target of an edge), per repeated occurrence of an id,
\* per id of fewer than 3 segments, per type outside the enumeration and per
\* edge whose target is no node's id, earlier or later in the list; a node
\* without id contributes its missing-field errors only.  The list is empty
\* iff there is no violation.
C9_AllViolationsReported ==
    ValidationComplete =>
        /\ Count(ErrorsOfKind("missing_field")) = Count(MissingNodeFields(nodes))
        /\ \A p \in MissingNodeFields(nodes) :
             \E k \in DOMAIN errors :
               /\ errors[k].kind = "missing_field"
               /\ errors[k].i = p[1] - 1
               /\ errors[k].field = p[2]
        /\ Count(ErrorsOfKind("edge_no_target")) = Count(MissingEdgeTargets(nodes))
        /\ Count(ErrorsOfKind("duplicate")) = Count(RepeatedIds(nodes))
        /\ Count(ErrorsOfKind("bad_format")) = Count(ShortIds(nodes))
        /\ Count(ErrorsOfKind("bad_type")) = Count(UnknownTypes(nodes))
        /\ Count(ErrorsOfKind("dangling")) = Count(DanglingEdges(nodes))
        /\ Len(errors) = Count(MissingNodeFields(nodes)) + Count(MissingEdgeTargets(nodes))
                         + Count(RepeatedIds(nodes)) + Count(ShortIds(nodes))
                         + Count(UnknownTypes(nodes)) + Count(DanglingEdges(nodes))
        /\ errors = << >> <=>
             /\ MissingNodeFields(nodes) = { } /\ MissingEdgeTargets(nodes) = { }
             /\ RepeatedIds(nodes) = { } /\ ShortIds(nodes) = { }
             /\ UnknownTypes(nodes) = { } /\ DanglingEdges(nodes) = { }

\* C9 witness: validation went through two nodes; the first has an edge that
\* is fine only because of the second node's id, the second node lacks two
\* required fields, and exactly these two errors were returned.
C9_Witness ==
    /\ ValidationComplete
    /\ Len(nodes) = 2
    /\ HasId(nodes[1]) /\ HasId(nodes[2])
    /\ \E k \in DOMAIN EdgesOf(nodes[1]) : nodes[1].edges[k] = Edge(nodes[2].id)
    /\ Count({ k \in DOMAIN errors : errors[k].kind = "missing_field" /\ errors[k].i = 1 }) = 2
    /\ ErrorsOfKind("dangling") = { }
    /\ Len(errors) = 2

\* C10: a run that loaded an empty node list writes no file and ends with a
\* non-zero status, in source mode and in scenario mode.
C10_EmptyNodeSetIsError ==
    (pc # "load" /\ nodes = << >>) =>
        /\ files = { }
        /\ ~dir_created
        /\ pc = "exit" => exit_status # 0

\* build_graph_structures has returned in this run (line 417).
GraphBuilt == pc \in { "mkdir", "index", "graph", "objects" } \/ (pc = "exit" /\ dir_created)

\* The declared edges that target t, as << node position, edge position >>.
EdgesTo(ns, t) == { p \in EdgePositions(ns) : ns[p[1]].edges[p[2]].target = t }

\* C11: when build_graph_structures has returned for a validated node list,
\* the key set of outgoing and the key set of incoming are both exactly the
\* set of node ids: a node without neighbours is a key of both, no other key
\* appears, and an empty node list gives two empty mappings.
C11_KeysAreNodeIds ==
    GraphBuilt =>
        /\ DOMAIN outgoing = { nodes[i].id : i \in DOMAIN nodes }
        /\ DOMAIN incoming = { nodes[i].id : i \in DOMAIN nodes }
        /\ nodes = << >> => outgoing = EmptyDict /\ incoming = EmptyDict

\* C11 witness: the structures were built for a list in which one node has
\* no neighbour in either direction and another node has an edge.
C11_Witness ==
    /\ pc = "mkdir"
    /\ \E i, j \in DOMAIN nodes :
         /\ EdgesOf(nodes[i]) = << >>
         /\ EdgesTo(nodes, nodes[i].id) = { }
         /\ outgoing[nodes[i].id] = << >>
         /\ incoming[nodes[i].id] = << >>
         /\ EdgesOf(nodes[j]) # << >>

\* The targets node declares, in declaration order.
DeclaredTargets(node) == [k \in DOMAIN EdgesOf(node) |-> node.edges[k].target]

\* One copy of node's id per edge of node that targets t.
SourcesFrom(node, t) ==
    [k \in 1..Cardinality({ e \in DOMAIN EdgesOf(node) : node.edges[e].target = t })
       |-> node.id]

\* The sources of the edges that target t: by position of the source node,
\* then by edge position.
RECURSIVE DeclaredSources(_, _)
DeclaredSources(ns, t) ==
    IF ns = << >> THEN << >>
    ELSE SourcesFrom(Head(ns), t) \o DeclaredSources(Tail(ns), t)

Occurrences(seq, x) == Cardinality({ k \in DOMAIN seq : seq[k] = x })

\* C12: build_graph_structures keeps every declared edge, in declaration
\* order: outgoing[n] is the sequence of n's declared targets (parallel edges
\* repeated, self-edges kept), incoming[t] holds the source of every edge
\* that targets t, once per edge, by node position and then edge position,
\* and t occurs in outgoing[s] as often as s occurs in incoming[t].
C12_EdgesVerbatimInOrder ==
    GraphBuilt =>
        /\ \A i \in DOMAIN nodes :
             /\ outgoing[nodes[i].id] = DeclaredTargets(nodes[i])
             /\ incoming[nodes[i].id] = DeclaredSources(nodes, nodes[i].id)
        /\ \A s, t \in DOMAIN outgoing :
             Occurrences(outgoing[s], t) = Occurrences(incoming[t], s)

\* C12 witness: a node declares a self-edge twice and a second, later node
\* targets it too, so that incoming holds the first node twice and then the
\* second.
C12_Witness ==
    /\ pc = "mkdir"
    /\ Len(nodes) >= 2
    /\ \E i, j \in DOMAIN nodes :
         /\ i < j
         /\ DeclaredTargets(nodes[i]) = << nodes[i].id, nodes[i].id >>
         /\ DeclaredTargets(nodes[j]) = << nodes[i].id >>
         /\ incoming[nodes[i].id] = << nodes[i].id, nodes[i].id, nodes[j].id >>

\* The value stored under key in a dict kept as its sequence of items.
ItemsOf(d, key) == { k \in DOMAIN d : d[k].key = key }

\* The positions of the nodes that declare at least one edge targeting t.
Referrers(ns, t) == { p[1] : p \in EdgesTo(ns, t) }

\* C13: in the index generated for a validated node list every node has one
\* record, and its isolated flag is true iff the node declares no outgoing
\* edge (edges absent or empty) and no node of the list has an edge that
\* targets it; a node with an outgoing edge, a self-loop included, and a node
\* some node refers to are not isolated.
C13_IsolatedFlag ==
    << "index.json" >> \in files =>
        \A i \in DOMAIN nodes :
          /\ Cardinality(ItemsOf(index_data, nodes[i].id)) = 1
          /\ \A k \in ItemsOf(index_data, nodes[i].id) :
               /\ index_data[k].value.isolated <=>
                    /\ nodes[i].edges_kind = "absent" \/ nodes[i].edges = << >>
                    /\ EdgesTo(nodes, nodes[i].id) = { }
               /\ EdgesOf(nodes[i]) # << >> => ~index_data[k].value.isolated
               /\ Referrers(nodes, nodes[i].id) # { } => ~index_data[k].value.isolated

\* C13 witness: the index was written for a list with a node that has no
\* edge in either direction (isolated) and a node whose only edge is a
\* self-loop (not isolated).
C13_Witness ==
    /\ << "index.json" >> \in files
    /\ \E i, j \in DOMAIN nodes :
         /\ EdgesOf(nodes[i]) = << >>
         /\ EdgesTo(nodes, nodes[i].id) = { }
         /\ \E k \in ItemsOf(index_data, nodes[i].id) : index_data[k].value.isolated
         /\ DeclaredTargets(nodes[j]) = << nodes[j].id >>
         /\ Referrers(nodes, nodes[j].id) = { j }
         /\ \E k \in ItemsOf(index_data, nodes[j].id) : ~index_data[k].value.isolated

C15_PostValidationNeverRaises ==
    (pc = "exit" /\ ValidationComplete /\ errors = << >>) =>
        /\ exit_status = 0
        /\ ~args.validate_only =>
             files = { << "index.json" >>, << "graph.json" >> }
                       \cup { << "nodes", nodes[i].id >> : i \in DOMAIN nodes }

====
